---- MODULE Spec2Model ----
(***************************************************************************)
(* A model of lib/salient/graph/document.js: the DocumentGraph client and   *)
(* the key-value / sorted-set store it drives.                              *)
(*                                                                          *)
(* The client is one JavaScript object with one store connection.  Every   *)
(* store command it issues is appended to `queue`; the store executes the  *)
(* commands of a connection in the order they were sent and answers in the *)
(* same order, so one step of the model takes the command at the head of   *)
(* the queue, applies it to `db` and runs the callback registered for it   *)
(* (which may append further commands).  A synchronous method of the       *)
(* client (readDocument, the start of indexWeights ...) is one step that   *)
(* appends all the commands it issues.                                     *)
(*                                                                          *)
(* Numbers: counters are integers.  Sorted-set scores and the JavaScript    *)
(* doubles computed from them are fixed-point integers in units of 1/Scale. *)
(***************************************************************************)
EXTENDS Integers, Sequences, FiniteSets, TLC

VARIABLES
    options,      \* this.options, fixed at construction
    db,           \* the store: key -> value
    queue,        \* commands sent and not yet executed, oldest first
    ingests       \* history: the <<id, text>> of every readDocument call

----------------------------------------------------------------------------
(* Strings *)

\* the upper-case letters of Basic Latin and of the Latin-1 Supplement, and
\* the lower-case letter of each
UpperChars == "ABCDEFGHIJKLMNOPQRSTUVWXYZÀÁÂÃÄÅÆÇÈÉÊËÌÍÎÏÐÑÒÓÔÕÖØÙÚÛÜÝÞ"
LowerChars == "abcdefghijklmnopqrstuvwxyzàáâãäåæçèéêëìíîïðñòóôõöøùúûüýþ"

CharAt(s, i) == SubSeq(s, i, i)

\* the lower-case letter of every upper-case letter
LowerOf ==
    [c \in {CharAt(UpperChars, i) : i \in 1..Len(UpperChars)} |->
        CharAt(LowerChars, CHOOSE i \in 1..Len(UpperChars) : CharAt(UpperChars, i) = c)]

LowerChar(c) == IF c \in DOMAIN LowerOf THEN LowerOf[c] ELSE c

\* String.prototype.toLowerCase
RECURSIVE ToLowerCase(_)
ToLowerCase(s) ==
    IF s = "" THEN "" ELSE LowerChar(CharAt(s, 1)) \o ToLowerCase(SubSeq(s, 2, Len(s)))

\* Array.prototype.join
RECURSIVE Join(_, _)
Join(parts, sep) ==
    IF Len(parts) = 0 THEN ""
    ELSE IF Len(parts) = 1 THEN parts[1]
    ELSE parts[1] \o sep \o Join(Tail(parts), sep)

\* s.indexOf(sub) == 0
StartsWith(s, sub) == Len(sub) <= Len(s) /\ SubSeq(s, 1, Len(sub)) = sub

\* s ends with sub (the store's glob "*sub")
EndsWith(s, sub) == Len(sub) <= Len(s) /\ SubSeq(s, Len(s) - Len(sub) + 1, Len(s)) = sub

\* s.indexOf(sub) >= 0
Contains(s, sub) == \E i \in 1..(Len(s) - Len(sub) + 1) : SubSeq(s, i, i + Len(sub) - 1) = sub

\* s.slice(n, s.length), n >= 0
SliceFrom(s, n) == IF n >= Len(s) THEN "" ELSE SubSeq(s, n + 1, Len(s))

----------------------------------------------------------------------------
(* Keys *)

TOTAL == "t"
NEXT == "<"
WEIGHT == "w"
CONTENT == "^"

defaultOptions == [nsPrefix |-> "", separator |-> ":", searchLimit |-> 100]

\* _fmt(parts...): the namespace prefix when it is not empty, then every
\* argument of non-zero length, joined by the separator.  Every call in the
\* file passes strings only.
NonEmpty(parts) == SelectSeq(parts, LAMBDA p : Len(p) > 0)

Fmt(opts, parts) ==
    Join((IF Len(opts.nsPrefix) > 0 THEN <<opts.nsPrefix>> ELSE <<>>) \o NonEmpty(parts),
         opts.separator)

\* _fmtNode(node): "" for a node without a tag
FmtNode(opts, node) ==
    IF node.tag = "" THEN ""
    ELSE Join(<<ToLowerCase(node.tag),
                IF node.distinct # "" THEN node.distinct ELSE ToLowerCase(node.term)>>,
              opts.separator)

\* this._prefixes
Prefixes(opts) ==
    << Fmt(opts, <<TOTAL>>) \o opts.separator,
       Fmt(opts, <<NEXT>>) \o opts.separator,
       Fmt(opts, <<CONTENT>>) \o opts.separator,
       Fmt(opts, <<WEIGHT>>) \o opts.separator >>

IsPrefixed(opts, id) ==
    \E i \in 1..Len(Prefixes(opts)) : StartsWith(id, Prefixes(opts)[i])

----------------------------------------------------------------------------
(* The store.  A value is an integer string, a text string or a sorted set *)
(* (member -> score, the score in units of 1/Scale).                       *)

Scale == 10 ^ 3

IntVal(n) == [ty |-> "int", n |-> n]
TxtVal(t) == [ty |-> "txt", txt |-> t]
ZsetVal(z) == [ty |-> "zset", z |-> z]

EmptyDb == << >>
EmptyZ == << >>

Has(d, key) == key \in DOMAIN d
Put(d, key, val) == (key :> val) @@ d

\* INCRBY key n: creates the key at 0; an error (nothing changes) on a value
\* that is not an integer
IncrBy(d, key, n) ==
    IF ~Has(d, key) THEN Put(d, key, IntVal(n))
    ELSE IF d[key].ty = "int" THEN Put(d, key, IntVal(d[key].n + n))
    ELSE d

\* SET key text
SetKey(d, key, t) == Put(d, key, TxtVal(t))

ZOf(d, key) == IF Has(d, key) /\ d[key].ty = "zset" THEN d[key].z ELSE EmptyZ

\* A faulty ZINCRBY, which sets the score to n: C3 must tell it from ZIncrBy
ZIncrByOverwrites(d, key, n, member) ==
    IF Has(d, key) /\ d[key].ty # "zset" THEN d
    ELSE Put(d, key, ZsetVal(Put(ZOf(d, key), member, n * Scale)))

\* ZINCRBY key n member: an error (nothing changes) on a value of another type
ZIncrBy(d, key, n, member) ==
    IF Has(d, key) /\ d[key].ty # "zset" THEN d
    ELSE LET z == ZOf(d, key)
             old == IF member \in DOMAIN z THEN z[member] ELSE 0
         IN Put(d, key, ZsetVal(Put(z, member, old + n * Scale)))

\* ZADD key score member (score in units of 1/Scale)
ZAdd(d, key, score, member) ==
    IF Has(d, key) /\ d[key].ty # "zset" THEN d
    ELSE Put(d, key, ZsetVal(Put(ZOf(d, key), member, score)))

\* The reply of ZADD: the number of members added (0 when the member was there)
ZAddReply(d, key, member) == IF member \in DOMAIN ZOf(d, key) THEN 0 ELSE 1

\* ZCARD key
ZCard(d, key) == Cardinality(DOMAIN ZOf(d, key))

----------------------------------------------------------------------------
(* JavaScript numbers: a finite value in units of 1/Scale, NaN, or an       *)
(* infinity (v is its sign).                                                *)

Fin(v) == [k |-> "fin", v |-> v]
NaN == [k |-> "nan", v |-> 0]
Inf(sign) == [k |-> "inf", v |-> sign]

\* The score of the store that stands for an infinity: beyond every finite one
InfScore == 10 ^ 9

\* An integer as a JavaScript number
Num(n) == Fin(n * Scale)

Sign(v) == IF v > 0 THEN 1 ELSE IF v < 0 THEN -1 ELSE 0
Abs(v) == IF v < 0 THEN -v ELSE v

\* x * y
Mul(x, y) ==
    CASE x.k = "nan" \/ y.k = "nan" -> NaN
      [] x.k = "inf" \/ y.k = "inf" ->
            IF Sign(x.v) * Sign(y.v) = 0 THEN NaN ELSE Inf(Sign(x.v) * Sign(y.v))
      [] OTHER -> Fin(Sign(x.v) * Sign(y.v) * ((Abs(x.v) * Abs(y.v)) \div Scale))

\* x + y
Add(x, y) ==
    CASE x.k = "nan" \/ y.k = "nan" -> NaN
      [] x.k = "inf" /\ y.k = "inf" -> IF x.v = y.v THEN x ELSE NaN
      [] x.k = "inf" -> x
      [] y.k = "inf" -> y
      [] OTHER -> Fin(x.v + y.v)

\* x / y
Div(x, y) ==
    CASE x.k = "nan" \/ y.k = "nan" -> NaN
      [] x.k = "inf" /\ y.k = "inf" -> NaN
      [] x.k = "inf" -> Inf(IF y.v < 0 THEN -x.v ELSE x.v)
      [] y.k = "inf" -> Fin(0)
      [] y.v = 0 -> IF x.v = 0 THEN NaN ELSE Inf(Sign(x.v))
      [] OTHER -> Fin(Sign(x.v) * Sign(y.v) * ((Abs(x.v) * Scale) \div Abs(y.v)))

\* Math.sqrt(x), rounded down to a multiple of 1/Scale
Sqrt(x) ==
    CASE x.k = "nan" -> NaN
      [] x.k = "inf" -> IF x.v > 0 THEN x ELSE NaN
      [] x.v < 0 -> NaN
      [] OTHER -> Fin(CHOOSE r \in 0..(IF x.v > Scale THEN x.v ELSE Scale) :
                        r * r <= x.v * Scale /\ (r + 1) * (r + 1) > x.v * Scale)

\* Scale * log10(n) rounded, n = 1, 2, ...
Log10Table ==
    <<0, 301, 477, 602, 699, 778, 845, 903, 954, 1000, 1041, 1079, 1114, 1146, 1176, 1204,
      1230, 1255, 1279, 1301, 1322, 1342, 1362, 1380, 1398, 1415, 1431, 1447, 1462, 1477>>

\* Math.log(a / b) / Math.LN10 for integer-valued a and b >= 0
Log10Quot(a, b) ==
    CASE a.k = "nan" \/ b.k = "nan" -> NaN
      [] a.k = "inf" \/ b.k = "inf" -> NaN
      [] b.v = 0 -> IF a.v > 0 THEN Inf(1) ELSE NaN
      [] a.v < 0 -> NaN
      [] a.v = 0 -> Inf(-1)
      [] OTHER -> Fin(Log10Table[a.v \div Scale] - Log10Table[b.v \div Scale])

\* parseInt of a store reply: an integer string, a score, or null
ParseIntCounter(d, key) ==
    IF Has(d, key) /\ d[key].ty = "int" THEN Num(d[key].n) ELSE NaN

\* parseInt of the score of member in a reply; the store prints an infinite
\* score as "inf" or "-inf", which parseInt does not read, and null for a
\* member that is absent
ParseIntScore(z, member) ==
    IF member \in DOMAIN z /\ Abs(z[member]) < InfScore
    THEN Fin(Sign(z[member]) * (Abs(z[member]) \div Scale) * Scale)
    ELSE NaN

\* parseFloat of a score as the store prints it; an infinite score is printed
\* "inf" or "-inf", which parseFloat does not read
ParseFloatScore(score) == IF Abs(score) >= InfScore THEN NaN ELSE Fin(score)

----------------------------------------------------------------------------
(* Order of strings (by character code) and of sorted-set members *)

\* the printable characters of Basic Latin (but the grave accent, which a
\* TLA+ string cannot hold) and the letters of the Latin-1 Supplement, by
\* character code
CharOrder == " !\"#$%&'()*+,-./0123456789:;<=>?@ABCDEFGHIJKLMNOPQRSTUVWXYZ[\\]^_abcdefghijklmnopqrstuvwxyz{|}~ÀÁÂÃÄÅÆÇÈÉÊËÌÍÎÏÐÑÒÓÔÕÖØÙÚÛÜÝÞßàáâãäåæçèéêëìíîïðñòóôõöøùúûüýþÿ"

CharCode(c) == CHOOSE i \in 1..Len(CharOrder) : CharAt(CharOrder, i) = c

RECURSIVE StrLess(_, _)
StrLess(a, b) ==
    IF b = "" THEN FALSE
    ELSE IF a = "" THEN TRUE
    ELSE IF CharAt(a, 1) = CharAt(b, 1) THEN StrLess(SubSeq(a, 2, Len(a)), SubSeq(b, 2, Len(b)))
    ELSE CharCode(CharAt(a, 1)) < CharCode(CharAt(b, 1))

\* The strings of a set in ascending order
RECURSIVE SortStrings(_)
SortStrings(S) ==
    IF S = {} THEN << >>
    ELSE LET m == CHOOSE x \in S : \A y \in S \ {x} : StrLess(x, y)
         IN <<m>> \o SortStrings(S \ {m})

\* member a comes before member b in the sorted set z
ZBefore(z, a, b) == z[a] < z[b] \/ (z[a] = z[b] /\ StrLess(a, b))

\* ZRANGE key 0 -1: the members by ascending score, equal scores by member
RECURSIVE ZRangeOf(_, _)
ZRangeOf(z, S) ==
    IF S = {} THEN << >>
    ELSE LET m == CHOOSE x \in S : \A y \in S \ {x} : ZBefore(z, x, y)
         IN <<m>> \o ZRangeOf(z, S \ {m})

ZRange(d, key) == ZRangeOf(ZOf(d, key), DOMAIN ZOf(d, key))

Reverse(s) == [i \in 1..Len(s) |-> s[Len(s) + 1 - i]]

\* ZREVRANGE key 0 stop: the first stop + 1 members by descending score
ZRevRange(d, key, stop) ==
    LET all == Reverse(ZRange(d, key))
    IN SubSeq(all, 1, IF stop + 1 < Len(all) THEN stop + 1 ELSE Len(all))

\* KEYS pre*post
KeysMatching(d, pre, post) ==
    {k \in DOMAIN d : Len(k) >= Len(pre) + Len(post) /\ StartsWith(k, pre) /\ EndsWith(k, post)}

----------------------------------------------------------------------------
(* Commands in flight.  call names the call whose callback waits for the   *)
(* reply, score is the score of a ZADD.                                     *)

Cmd(op, key, member, num, txt) ==
    [op |-> op, key |-> key, member |-> member, num |-> num, txt |-> txt,
     call |-> 0, score |-> Fin(0)]

Query(op, key, member, call, score) ==
    [op |-> op, key |-> key, member |-> member, num |-> 0, txt |-> "",
     call |-> call, score |-> score]

\* The effect of a write command on the store
ApplyWrite(d, c) ==
    CASE c.op = "incrby"  -> IncrBy(d, c.key, c.num)
      [] c.op = "set"     -> SetKey(d, c.key, c.txt)
      [] c.op = "zincrby" -> ZIncrBy(d, c.key, c.num, c.member)
      [] OTHER            -> d

RECURSIVE ApplyAll(_, _)
ApplyAll(d, cmds) ==
    IF Len(cmds) = 0 THEN d ELSE ApplyAll(ApplyWrite(d, Head(cmds)), Tail(cmds))

----------------------------------------------------------------------------
(* Ingest *)

\* _incrEdges(id, key, prevKey): the commands it sends; it returns key.
\* prevKey is "" for null (both are falsy).
IncrEdges(opts, id, key, prevKey) ==
    << Cmd("incrby", Fmt(opts, <<TOTAL, key>>), "", 1, ""),
       Cmd("zincrby", Fmt(opts, <<id>>), key, 1, ""),
       Cmd("zincrby", Fmt(opts, <<key>>), id, 1, "") >>
    \o (IF prevKey # ""
        THEN << Cmd("zincrby", Fmt(opts, <<NEXT, prevKey>>), key, 1, "") >>
        ELSE << >>)

\* The tokenizer's output for a text (Glossary.parse, then the walk over
\* current.next with toJSON): leaves and groups.  A leaf has neither orig nor
\* children; a group has both.
Leaf(tag, term, filtered) ==
    [kind |-> "leaf", tag |-> tag, term |-> term, distinct |-> "",
     isFiltered |-> filtered, orig |-> << >>, children |-> << >>]

Group(orig, children, filtered) ==
    [kind |-> "group", tag |-> "", term |-> "", distinct |-> "",
     isFiltered |-> filtered, orig |-> <<orig>>, children |-> children]

Cat == Leaf("NOUN", "Cat", FALSE)
Run == Leaf("VERB", "run", FALSE)
Big == Leaf("ADJ", "big", FALSE)
The == Leaf("DET", "the", TRUE)

Texts == {"cat run cat", "cat cat run", "cat the run", "the", "big cat run", "the cat", "Été"}

Parse(text) ==
    CASE text = "cat run cat" -> <<Cat, Run, Leaf("noun", "cat", FALSE)>>
      [] text = "cat cat run" -> <<Cat, Cat, Run>>
      [] text = "cat the run" -> <<Cat, The, Run>>
      [] text = "the"         -> <<The>>
      [] text = "big cat run" -> <<Group(Cat, <<Big, The, Cat>>, FALSE), Run>>
      [] text = "the cat"     -> <<Run, Group(The, <<Cat>>, TRUE), Group(The, <<Big>>, FALSE)>>
      [] text = "Été"         -> <<Leaf("NOUN", "Été", FALSE)>>

\* State of the walk: the commands sent so far and prev
WalkState(cmds, prev) == [cmds |-> cmds, prev |-> prev]

\* A faulty step, where a filtered node resets prev: C4 must tell it from EdgeStep
EdgeStepResetsPrev(opts, id, node, st) ==
    IF node.isFiltered THEN WalkState(st.cmds, "")
    ELSE WalkState(st.cmds \o IncrEdges(opts, id, FmtNode(opts, node), st.prev),
                   FmtNode(opts, node))

\* prev = this._incrEdges(id, this._fmtNode(node), prev), when node is not filtered
EdgeStep(opts, id, node, st) ==
    IF node.isFiltered THEN st
    ELSE WalkState(st.cmds \o IncrEdges(opts, id, FmtNode(opts, node), st.prev),
                   FmtNode(opts, node))

RECURSIVE EdgeSteps(_, _, _, _)
EdgeSteps(opts, id, nodes, st) ==
    IF Len(nodes) = 0 THEN st
    ELSE EdgeSteps(opts, id, Tail(nodes), EdgeStep(opts, id, Head(nodes), st))

\* A faulty turn, which takes the original node of a group after its children:
\* C18 must tell it from NodeStep
NodeStepOrigLast(opts, id, s, st) ==
    IF s.kind = "leaf"
    THEN EdgeStep(opts, id, s, st)
    ELSE IF ~s.isFiltered /\ s.kind = "group"
         THEN EdgeStep(opts, id, s.orig[1], EdgeSteps(opts, id, s.children, st))
         ELSE st

\* One turn of the do-while loop of readDocument on the node s
NodeStep(opts, id, s, st) ==
    IF s.kind = "leaf"
    THEN EdgeStep(opts, id, s, st)
    ELSE IF ~s.isFiltered /\ s.kind = "group"
         THEN EdgeSteps(opts, id, s.children, EdgeStep(opts, id, s.orig[1], st))
         ELSE st

RECURSIVE Walk(_, _, _, _)
Walk(opts, id, nodes, st) ==
    IF Len(nodes) = 0 THEN st
    ELSE Walk(opts, id, Tail(nodes), NodeStep(opts, id, Head(nodes), st))

\* Every command readDocument(id, text) sends when text parses to nodes
IngestCmds(opts, id, text, nodes) ==
    << Cmd("incrby", Fmt(opts, <<TOTAL>>), "", 1, ""),
       Cmd("set", Fmt(opts, <<CONTENT, id>>), "", 0, text) >>
    \o Walk(opts, id, nodes, WalkState(<< >>, "")).cmds

ReadDocumentCmds(opts, id, text) == IngestCmds(opts, id, text, Parse(text))

----------------------------------------------------------------------------
(* TF-IDF *)

\* The score a ZADD stores for a JavaScript number
ScoreOf(x) == IF x.k = "inf" THEN x.v * InfScore ELSE x.v

\* ZADD key x member sent by the client: NaN is refused by the store
ZAddNum(d, key, x, member) ==
    IF x.k = "nan" THEN d ELSE ZAdd(d, key, ScoreOf(x), member)

\* its reply: the number of members added, or -1 for an error (success undefined)
ZAddNumReply(d, key, x, member) ==
    IF x.k = "nan" \/ (Has(d, key) /\ d[key].ty # "zset") THEN -1
    ELSE ZAddReply(d, key, member)

\* execResults on the replies of multi().get(totalKey).get(totalDocKey)
\* .zcard(_fmt(key)).zscore(_fmt(id), key); id = "" when no id is given
TFIDF(d, opts, id, key) ==
    LET keyFrequency == IF id # ""
                        THEN ParseIntScore(ZOf(d, Fmt(opts, <<id>>)), key)
                        ELSE ParseIntCounter(d, Fmt(opts, <<TOTAL, key>>))
        docFrequency == ParseIntCounter(d, Fmt(opts, <<TOTAL>>))
        keyDocFrequency == Num(ZCard(d, Fmt(opts, <<key>>)))
        tf == Add(Num(1), Log10Quot(keyFrequency, Num(1)))
        idf == Log10Quot(docFrequency, keyDocFrequency)
    IN [key |-> key, rawtf |-> keyFrequency, df |-> keyDocFrequency, n |-> docFrequency,
        idf |-> idf, tf |-> tf, tfidf |-> Mul(tf, idf)]

----------------------------------------------------------------------------
(* The client's callbacks.  A callback works on the bundle                  *)
(*   [iw, ia, progressLog, finalLog, out]                                   *)
(* of the client's variables and the commands it sends (out).               *)
(*                                                                          *)
(* iw[c]: the indexWeights call c: its id, the indexAllWeights run and item *)
(* it belongs to (parent = 0: called by the application), whether the range *)
(* read was answered (read) and failed, the number n of terms, the number   *)
(* of terms done (completed of async.each), whether main_callback of        *)
(* async.every is still the caller's callback (live) and what the caller's  *)
(* callback was given (reported).                                           *)
(* ia[r]: the indexAllWeights run r: keys, and started / running /          *)
(* completed of async.eachLimit, and iter; state: keys (the keys command is *)
(* sent), running, done (the final callback was called), threw.  Runs may   *)
(* overlap: every call of indexAllWeights has keys and iter of its own.     *)

Limit == 8

NewCall(id, run, parent) ==
    [id |-> id, run |-> run, parent |-> parent, read |-> FALSE, failed |-> FALSE,
     n |-> 0, completed |-> 0, live |-> TRUE, reported |-> << >>]

NewRun == [state |-> "keys", keys |-> << >>, started |-> 0, running |-> 0,
           completed |-> 0, iter |-> 0]

\* Math.round((count / total) * 100.0), in double precision.  The quotient is
\* rounded half up; when it is k + 1/2 exactly, with k one of 14, 28, 56, 57,
\* the double (count / total) * 100.0 falls just below k + 1/2 (23 / 40 * 100.0
\* is 57.49999999999999) and Math.round gives k.  For no other k does the
\* double product differ from k + 1/2.
Percent(count, total) ==
    LET twice == 2 * 100 * count
    IN IF twice % total = 0 /\ (twice \div total) \in {29, 57, 113, 115}
       THEN (twice \div total - 1) \div 2
       ELSE (twice + total) \div (2 * total)

\* indexWeights(id, callback): sends the range read
IndexWeightsCall(st, id, run, parent) ==
    [st EXCEPT !.iw = Append(@, NewCall(id, run, parent)),
               !.out = Append(@, Query("zrange", Fmt(options, <<id>>), "", Len(st.iw) + 1, Fin(0)))]

\* item.slice((self._fmt(CONTENT) + ":").length, item.length)
IdOfContentKey(item) == SliceFrom(item, Len(Fmt(options, <<CONTENT>>) \o ":"))

\* A faulty limit test: C6 must tell it from HasRoom
HasRoomOffByOne(running) == running <= Limit

\* async.eachLimit: while (running < limit && started < arr.length)
HasRoom(running) == running < Limit

\* of the run r
RECURSIVE Replenish(_, _)
Replenish(st, r) ==
    IF HasRoom(st.ia[r].running) /\ st.ia[r].started < Len(st.ia[r].keys)
    THEN Replenish(IndexWeightsCall(
            [st EXCEPT !.ia[r].started = @ + 1, !.ia[r].running = @ + 1],
            IdOfContentKey(st.ia[r].keys[st.ia[r].started + 1]),
            r, st.ia[r].started + 1), r)
    ELSE st

\* the final callback of async.eachLimit of the run r: callback({total, count})
Finish(st, r) ==
    [st EXCEPT !.finalLog[r] = Append(@, [total |-> Len(st.ia[r].keys), count |-> st.ia[r].iter]),
               !.ia[r].state = "done"]

\* function (success) { iter++; progress(...); cb(null); } of the run r and
\* the cb of async.eachLimit
ItemDone(st, r) ==
    LET st1 == [st EXCEPT !.ia[r].iter = @ + 1]
        st2 == [st1 EXCEPT !.progressLog[r] = Append(@, [total |-> Len(st.ia[r].keys),
                                       count |-> st1.ia[r].iter,
                                       percent |-> Percent(st1.ia[r].iter, Len(st.ia[r].keys))])]
        st3 == [st2 EXCEPT !.ia[r].completed = @ + 1, !.ia[r].running = @ - 1]
    IN IF st3.ia[r].completed >= Len(st3.ia[r].keys) THEN Finish(st3, r) ELSE Replenish(st3, r)

\* the callback given to indexWeights is called with v
Report(st, call, v) ==
    LET st1 == [st EXCEPT !.iw[call].reported = Append(@, v)]
    IN IF st.iw[call].parent > 0 THEN ItemDone(st1, st.iw[call].run) ELSE st1

\* async.every: the iterator's callback is called with v for one term
EveryCb(st, call, v) ==
    LET st1 == IF ~v /\ st.iw[call].live
               THEN [Report(st, call, FALSE) EXCEPT !.iw[call].live = FALSE]
               ELSE st
        st2 == [st1 EXCEPT !.iw[call].completed = @ + 1]
    IN IF st2.iw[call].completed >= st2.iw[call].n /\ st2.iw[call].live
       THEN Report(st2, call, TRUE)
       ELSE st2

\* the callback of the range read of indexWeights; async.every over no term
\* calls back with true at once
OnRange(st, call, failed, results) ==
    LET st1 == [st EXCEPT !.iw[call].read = TRUE, !.iw[call].failed = failed,
                          !.iw[call].n = Len(results)]
    IN IF failed THEN Report(st1, call, FALSE)
       ELSE IF Len(results) = 0 THEN Report(st1, call, TRUE)
       ELSE [st1 EXCEPT !.out = @ \o [i \in 1..Len(results) |->
                              Query("multi", results[i], st.iw[call].id, call, Fin(0))]]

----------------------------------------------------------------------------
(* Search.  sr[c] is the search call c: its terms and options.searchLimit,  *)
(* the result of the first async.map (termResults, and waiting: the terms   *)
(* whose keys command is not answered), the terms after _.flatten (flat),   *)
(* the results of the second async.map (results, got of them received),     *)
(* every call of the caller's callback (cb) and whether a callback of the   *)
(* call threw.  phase: 1 resolving terms, 2 fetching, 3 map finished, 4 the *)
(* second async.map has failed.                                             *)

\* term.indexOf(':') < 0
IsBare(term) == ~Contains(term, ":")

\* the parts of a glob pattern before and after its first "*"
GlobStar(p) == CHOOSE i \in 1..Len(p) : CharAt(p, i) = "*" /\ \A j \in 1..(i - 1) : CharAt(p, j) # "*"
GlobPre(p) == SubSeq(p, 1, GlobStar(p) - 1)
GlobPost(p) == SubSeq(p, GlobStar(p) + 1, Len(p))

\* reducedTerms: the keys that are not prefixed, sliced at nsPrefix.length + 1
ReducedTerms(opts, keys) ==
    LET kept == SelectSeq(keys, LAMBDA k : ~IsPrefixed(opts, k))
    IN [i \in 1..Len(kept) |-> SliceFrom(kept[i], Len(opts.nsPrefix) + 1)]

\* _.flatten(termResults)
RECURSIVE Flatten(_)
Flatten(lists) == IF Len(lists) = 0 THEN << >> ELSE Head(lists) \o Flatten(Tail(lists))

\* ZREVRANGE key 0 stop WITHSCORES
ZRevRangeWithScores(d, key, stop) ==
    LET members == ZRevRange(d, key, stop)
    IN [i \in 1..Len(members) |-> [id |-> members[i], score |-> ZOf(d, key)[members[i]]]]

\* the while loop over one term's results: scores and ids, and whether the
\* loop threw.  scores is a plain object: once the id "hasOwnProperty" is
\* stored in it, scores.hasOwnProperty is a number and the next test of an id
\* throws a TypeError; the id "__proto__" is never stored (the assignments to
\* scores["__proto__"] are ignored), so every occurrence of it is pushed.
RECURSIVE Accumulate(_, _)
Accumulate(entries, acc) ==
    IF Len(entries) = 0 \/ acc.threw THEN acc
    ELSE LET docId == Head(entries).id
             docTermWeight == ParseFloatScore(Head(entries).score)
             acc1 == IF docId \in DOMAIN acc.scores THEN acc
                     ELSE [acc EXCEPT !.scores = IF docId = "__proto__" THEN @
                                                 ELSE Put(@, docId, Fin(0)),
                                      !.ids = Append(@, docId)]
         IN IF "hasOwnProperty" \in DOMAIN acc.scores THEN [acc EXCEPT !.threw = TRUE]
            ELSE IF docId = "__proto__" THEN Accumulate(Tail(entries), acc1)
            ELSE Accumulate(Tail(entries),
                            [acc1 EXCEPT !.scores = Put(@, docId, Add(acc1.scores[docId], docTermWeight))])

\* the for loop over results
RECURSIVE AccumulateAll(_, _)
AccumulateAll(results, acc) ==
    IF Len(results) = 0 THEN acc
    ELSE AccumulateAll(Tail(results), Accumulate(Head(results), acc))

\* scores[id] as a number: a score stored, or an object (NaN in arithmetic)
\* for the id "__proto__", which is never stored
ScoreAt(scores, id) == IF id \in DOMAIN scores THEN scores[id] ELSE NaN

\* function (a, b) { return scores[b] - scores[a] }
Compare(scores, a, b) == Add(ScoreAt(scores, b), Mul(Num(-1), ScoreAt(scores, a)))

\* ids.sort(compare): every order the sort may give.  When no score is NaN
\* the comparator is consistent and the order is by descending score; ids of
\* equal score keep the order they had when the engine's sort is stable,
\* which it is for up to 10 ids on every engine, and come in any order for
\* more than 10 ids, where the engines before node 11 sort unstably.  When a
\* score is NaN (parseFloat("inf"), or the id "__proto__") the comparator
\* returns NaN and the order depends on the engine: it is some permutation of
\* the ids.  The ids are taken one by one, rest being the positions left.
SortOutcomes(ids, scores) ==
    LET n == Len(ids)
        consistent == \A i \in 1..n : ScoreAt(scores, ids[i]).k # "nan"
        RECURSIVE Pick(_)
        Pick(rest) ==
            IF rest = {} THEN {<< >>}
            ELSE LET top == {i \in rest : \A j \in rest : Compare(scores, ids[i], ids[j]).v <= 0}
                     first == {i \in top : \A j \in top : i <= j}
                     next == IF ~consistent THEN rest ELSE IF n > 10 THEN top ELSE first
                 IN UNION {{<<ids[i]>> \o t : t \in Pick(rest \ {i})} : i \in next}
    IN Pick(1..n)

NewSearch(terms, limit) ==
    [terms |-> terms, limit |-> limit,
     termResults |-> [i \in 1..Len(terms) |-> IF IsBare(terms[i]) THEN << >> ELSE <<terms[i]>>],
     waiting |-> {i \in 1..Len(terms) : IsBare(terms[i])},
     flat |-> << >>, phase |-> 1, results |-> << >>, got |-> 0, cb |-> << >>, threw |-> FALSE]

\* what the caller's callback is given: callback(err) or callback(null, [ids, scores])
SearchResult(err, ids, scores) == [err |-> err, ids |-> ids, scores |-> scores]

\* the final callback of the second async.map, without an error: the search
\* call after it, one for every order the sort may give; when the loop throws
\* the caller's callback is not called
OnResults(s) ==
    LET acc == AccumulateAll(s.results, [scores |-> << >>, ids |-> << >>, threw |-> FALSE])
    IN IF acc.threw THEN {[s EXCEPT !.phase = 3, !.threw = TRUE]}
       ELSE {[s EXCEPT !.phase = 3, !.cb = Append(@, SearchResult(FALSE, ids, acc.scores))] :
                ids \in SortOutcomes(acc.ids, acc.scores)}

\* A faulty callback, which reports an error over no term: C10 must tell it
\* from OnTerms
OnTermsDropsEmpty(opts, s, call) ==
    LET flat == Flatten(s.termResults)
        s1 == [s EXCEPT !.flat = flat, !.phase = 2,
                        !.results = [i \in 1..Len(flat) |-> << >>]]
    IN [s |-> IF Len(flat) = 0 THEN [s1 EXCEPT !.phase = 4, !.cb = Append(@, SearchResult(TRUE, << >>, << >>))]
              ELSE s1,
        out |-> [i \in 1..Len(flat) |->
                   [Query("zrevrange", Fmt(opts, <<WEIGHT, flat[i]>>), "", call, Fin(0))
                       EXCEPT !.num = i]]]

\* the final callback of the first async.map: the second async.map, which
\* calls back at once over no term (no id to sort: OnResults has one outcome).
\* It gives the search call and the commands sent.
OnTerms(opts, s, call) ==
    LET flat == Flatten(s.termResults)
        s1 == [s EXCEPT !.flat = flat, !.phase = 2,
                        !.results = [i \in 1..Len(flat) |-> << >>]]
    IN [s |-> IF Len(flat) = 0 THEN CHOOSE r \in OnResults(s1) : TRUE ELSE s1,
        out |-> [i \in 1..Len(flat) |->
                   [Query("zrevrange", Fmt(opts, <<WEIGHT, flat[i]>>), "", call, Fin(0))
                       EXCEPT !.num = i]]]

\* search(terms, callback, options): the first async.map
SearchCall(opts, terms, limit, call) ==
    LET s == NewSearch(terms, limit)
        bare == SelectSeq([i \in 1..Len(terms) |-> i], LAMBDA i : IsBare(terms[i]))
    IN IF Len(bare) = 0 THEN OnTerms(opts, s, call)
       ELSE [s |-> s,
             out |-> [j \in 1..Len(bare) |->
                        [Query("termkeys", Fmt(opts, <<"*", terms[bare[j]]>>), "", call, Fin(0))
                            EXCEPT !.num = bare[j]]]]

\* the callback of keys(_fmt("*", term)) for the term at index i
OnTermKeys(opts, s, call, i, keys) ==
    LET s1 == [s EXCEPT !.termResults[i] = ReducedTerms(opts, keys), !.waiting = @ \ {i}]
    IN IF s1.waiting = {} THEN OnTerms(opts, s1, call) ELSE [s |-> s1, out |-> << >>]

\* the callback of zrevrange for the term at index i of flat: the search call
\* after it, one for every order the sort may give.  An error reaches the
\* final callback, which calls callback(err) and then throws on the missing
\* result (line 129 on, results[i] is undefined); the throw leaves async.map's
\* final callback armed, so every later error of the call does the same
\* again, while a later reply without error can no longer complete the map.
OnRevRange(s, i, err, entries) ==
    IF s.phase \notin {2, 4} THEN {s}
    ELSE IF err
    THEN {[s EXCEPT !.phase = 4, !.cb = Append(@, SearchResult(TRUE, << >>, << >>)),
                    !.threw = TRUE]}
    ELSE IF s.phase = 4 THEN {s}
    ELSE LET s1 == [s EXCEPT !.results[i] = entries, !.got = @ + 1]
         IN IF s1.got >= Len(s1.flat) THEN OnResults(s1) ELSE {s1}

----------------------------------------------------------------------------
(* Bounds and inputs *)

MaxIngests == 2
MaxIndexCalls == 2
MaxRuns == 2
MaxFaults == 1
NumDocs == 9
MaxSearches == 1
MaxCalls == 1
MaxOtherIngests == 1
MaxSimilarities == 1
NumSimDocs == 6

\* The document ids of the ingests: two ordinary ids, the key of the
\* document counter, a node key and the key of the next-edges of a node
DocIds == {"d1", "d2", TOTAL, "noun:cat", "<:noun:cat"}

\* The corpus of the searches (the second document has one of the ids of
\* SecondIds, among them two property names of Object.prototype), the terms
\* searched and the searchLimit option (0: no option given)
SearchCorpus == << <<"d1", "cat run cat">>, <<"d2", "the cat">>, <<"d3", "the">> >>

SecondIds == {"d2", "__proto__", "hasOwnProperty"}

SearchTerms ==
    { << >>, <<"zzz">>, <<"cat">>, <<"noun:cat">>, <<"noun:cat", "noun:cat">>,
      <<"verb:run", "noun:cat">>, <<"run", "adj:big">>, <<"zzz", "yyy">> }

SearchLimits == {0, 1}

\* A corpus of n documents d1 .. dn
DocName(i) == "d" \o ToString(i)

CorpusText(i) == IF i % 4 = 1 THEN "cat run cat" ELSE "the"

----------------------------------------------------------------------------
(* Actions *)

VARIABLES
    iw,           \* the indexWeights calls made, in order
    ia,           \* the indexAllWeights runs, in the order of the calls
    progressLog,  \* for every run, the arguments of its progress calls
    finalLog,     \* for every run, the arguments of the calls of its final callback
    computed,     \* history: <<id, key>> -> the latest tfidf computed for them
    faults,       \* number of commands the store has failed
    answered,     \* number of commands the store has answered
    sr,           \* the search calls made, in order
    queue2,       \* the commands a second graph on the same store has sent
    calls         \* the TFIDF and similarity calls made, and the calls of the second graph

clientVars == <<iw, ia, progressLog, finalLog>>
vars == <<options, db, queue, ingests, iw, ia, progressLog, finalLog, computed, faults,
          answered, sr, queue2, calls>>

IsWrite(c) == c.op \in {"incrby", "set", "zincrby"}

Bundle == [iw |-> iw, ia |-> ia, progressLog |-> progressLog, finalLog |-> finalLog, out |-> << >>]

\* the callback ran: the client's variables and the commands it sent
Commit(st, rest) ==
    /\ iw' = st.iw
    /\ ia' = st.ia
    /\ progressLog' = st.progressLog
    /\ finalLog' = st.finalLog
    /\ queue' = rest \o st.out

\* the store answers the command at the head of the queue, or fails it
Fault(fail) ==
    /\ fail => faults < MaxFaults
    /\ faults' = IF fail THEN faults + 1 ELSE faults
    /\ answered' = answered + 1

\* readDocument(id, text)
ReadDocument(id, text) ==
    /\ queue' = queue \o ReadDocumentCmds(options, id, text)
    /\ ingests' = Append(ingests, <<id, text>>)
    /\ UNCHANGED <<queue2, calls, options, db, clientVars, computed, faults, answered, sr>>

\* The store executes a command sent without a callback
ExecWrite ==
    /\ queue # << >>
    /\ IsWrite(Head(queue))
    /\ db' = ApplyWrite(db, Head(queue))
    /\ queue' = Tail(queue)
    /\ answered' = answered + 1
    /\ UNCHANGED <<queue2, calls, options, ingests, clientVars, computed, faults, sr>>

\* indexWeights(id, callback) called by the application
IndexWeights(id) ==
    /\ Cardinality({c \in 1..Len(iw) : iw[c].parent = 0}) < MaxIndexCalls
    /\ Commit(IndexWeightsCall(Bundle, id, 0, 0), queue)
    /\ UNCHANGED <<queue2, calls, options, db, ingests, computed, faults, answered, sr>>

\* the reply to zrange(_fmt(id), 0, -1) of indexWeights
RangeReply(fail) ==
    /\ queue # << >>
    /\ Head(queue).op = "zrange"
    /\ Fault(fail)
    /\ LET c == Head(queue)
           wrong == Has(db, c.key) /\ db[c.key].ty # "zset"
       IN Commit(OnRange(Bundle, c.call, fail \/ wrong,
                         IF fail \/ wrong THEN << >> ELSE ZRange(db, c.key)),
                 Tail(queue))
    /\ UNCHANGED <<queue2, calls, options, db, ingests, computed, sr>>

\* the reply to the multi of TFIDF, in _computeWeights: zadd of the score
\* to the document's weight set, or cb(false)
TfidfReply(fail) ==
    /\ queue # << >>
    /\ Head(queue).op = "multi"
    /\ Fault(fail)
    /\ LET c == Head(queue)
           id == c.member
           item == c.key
           result == TFIDF(db, options, id, item)
       IN IF fail
          THEN /\ Commit(EveryCb(Bundle, c.call, FALSE), Tail(queue))
               /\ UNCHANGED computed
          ELSE /\ Commit([Bundle EXCEPT !.out = <<Query("zadd1", Fmt(options, <<WEIGHT, id>>),
                                                         item, c.call, result.tfidf)>>],
                         Tail(queue))
               /\ computed' = Put(computed, <<id, item>>, result.tfidf)
    /\ UNCHANGED <<queue2, calls, options, db, ingests, sr>>

\* the reply to zadd(_fmt(WEIGHT, id), tfidf, item): zadd to the term's weight set
Zadd1Reply(fail) ==
    /\ queue # << >>
    /\ Head(queue).op = "zadd1"
    /\ Fault(fail)
    /\ LET c == Head(queue)
           id == iw[c.call].id
       IN /\ db' = IF fail THEN db ELSE ZAddNum(db, c.key, c.score, c.member)
          /\ Commit([Bundle EXCEPT !.out = <<Query("zadd2", Fmt(options, <<WEIGHT, c.member>>),
                                                    id, c.call, c.score)>>],
                    Tail(queue))
    /\ UNCHANGED <<queue2, calls, options, ingests, computed, sr>>

\* the reply to zadd(_fmt(WEIGHT, item), tfidf, id): cb(success)
Zadd2Reply(fail) ==
    /\ queue # << >>
    /\ Head(queue).op = "zadd2"
    /\ Fault(fail)
    /\ LET c == Head(queue)
           success == IF fail THEN -1 ELSE ZAddNumReply(db, c.key, c.score, c.member)
       IN /\ db' = IF fail THEN db ELSE ZAddNum(db, c.key, c.score, c.member)
          /\ Commit(EveryCb(Bundle, c.call, success > 0), Tail(queue))
    /\ UNCHANGED <<queue2, calls, options, ingests, computed, sr>>

\* indexAllWeights(progress, callback): sends keys(_fmt(CONTENT, "*")),
\* whatever the runs before it are doing
IndexAllWeights ==
    /\ Len(ia) < MaxRuns
    /\ ia' = Append(ia, NewRun)
    /\ progressLog' = Append(progressLog, << >>)
    /\ finalLog' = Append(finalLog, << >>)
    /\ queue' = Append(queue, Query("keys", Fmt(options, <<CONTENT, "*">>), "", Len(ia) + 1, Fin(0)))
    /\ UNCHANGED <<queue2, calls, options, db, ingests, iw, computed, faults, answered, sr>>

\* the reply to keys: async.eachLimit(keys, 8, ...).  The store lists the
\* keys in an order of its own.  When the command failed keys is undefined
\* and keys.length throws: neither progress nor the final callback is called.
KeysReply(fail, reversed) ==
    /\ queue # << >>
    /\ Head(queue).op = "keys"
    /\ Fault(fail)
    /\ LET pre == SubSeq(Head(queue).key, 1, Len(Head(queue).key) - 1)
           r == Head(queue).call
           sorted == SortStrings(KeysMatching(db, pre, ""))
           keys == IF reversed THEN Reverse(sorted) ELSE sorted
           st == [Bundle EXCEPT !.ia[r].keys = keys, !.ia[r].state = "running"]
       IN Commit(IF fail THEN [Bundle EXCEPT !.ia[r].state = "threw"]
                 ELSE IF Len(keys) = 0 THEN Finish(st, r) ELSE Replenish(st, r), Tail(queue))
    /\ UNCHANGED <<queue2, calls, options, db, ingests, computed, sr>>

\* search(terms, callback, options)
Search(terms, searchLimit) ==
    /\ Len(sr) < MaxSearches
    /\ LET limit == IF searchLimit # 0 THEN searchLimit ELSE options.searchLimit
           r == SearchCall(options, terms, limit, Len(sr) + 1)
       IN /\ sr' = Append(sr, r.s)
          /\ queue' = queue \o r.out
    /\ UNCHANGED <<queue2, calls, options, db, ingests, clientVars, computed, faults, answered>>

\* the reply to keys(_fmt("*", term)) of search; keys.length throws when the
\* command failed
TermKeysReply(fail, reversed) ==
    /\ queue # << >>
    /\ Head(queue).op = "termkeys"
    /\ Fault(fail)
    /\ LET c == Head(queue)
           sorted == SortStrings(KeysMatching(db, GlobPre(c.key), GlobPost(c.key)))
           keys == IF reversed THEN Reverse(sorted) ELSE sorted
           r == IF fail THEN [s |-> [sr[c.call] EXCEPT !.threw = TRUE], out |-> << >>]
                ELSE OnTermKeys(options, sr[c.call], c.call, c.num, keys)
       IN /\ sr' = [sr EXCEPT ![c.call] = r.s]
          /\ queue' = Tail(queue) \o r.out
    /\ UNCHANGED <<queue2, calls, options, db, ingests, clientVars, computed>>

\* the reply to zrevrange(_fmt(WEIGHT, term), 0, options.searchLimit, 'WITHSCORES')
ZrevReply(fail) ==
    /\ queue # << >>
    /\ Head(queue).op = "zrevrange"
    /\ Fault(fail)
    /\ LET c == Head(queue)
           wrong == Has(db, c.key) /\ db[c.key].ty # "zset"
       IN \E r \in OnRevRange(sr[c.call], c.num, fail \/ wrong,
                                IF fail \/ wrong THEN << >>
                                ELSE ZRevRangeWithScores(db, c.key, sr[c.call].limit)) :
             sr' = [sr EXCEPT ![c.call] = r]
    /\ queue' = Tail(queue)
    /\ UNCHANGED <<queue2, calls, options, db, ingests, clientVars, computed>>

(* Calls of TFIDF by the application, and a second graph on the same store. *)
(* Every DocumentGraph opens its own connection to the store (conn 1: the   *)
(* graph of the actions above, conn 2: the second graph), and the store     *)
(* executes the commands of a connection in the order sent.                 *)
(* calls[c]: the call c: op, the graph it is made on (conn), its arguments  *)
(* (TFIDF: a = id, b = key as bound, argc = the number of arguments given;  *)
(* readDocument: a = id, b = text; similarity: a = id1, b = id2, filter =  *)
(* filterPrefixes, replies = the weight sets read so far), every call of    *)
(* its callback (cb) and whether a callback of the call threw.              *)

NewDirect(op, conn, a, b, argc, filter) ==
    [op |-> op, conn |-> conn, a |-> a, b |-> b, argc |-> argc, filter |-> filter,
     replies |-> << >>, cb |-> << >>, threw |-> FALSE]

QueueOf(conn) == IF conn = 1 THEN queue ELSE queue2

\* the queue of connection conn becomes q
Conn(conn, q) ==
    IF conn = 1 THEN queue' = q /\ UNCHANGED queue2 ELSE queue2' = q /\ UNCHANGED queue

\* the client sends commands: they queue behind the ones sent before
Send(q, cmds) == q \o cmds

\* A faulty TFIDF, which reads over a connection of its own (here the one of
\* the other graph) instead of this._redisClient: C15 must tell it from Tfidf
TfidfOwnConnection(conn, id, key, argc) ==
    /\ Cardinality({c \in 1..Len(calls) : calls[c].op = "TFIDF"}) < MaxCalls
    /\ calls' = Append(calls, NewDirect("TFIDF", conn, id, key, argc, << >>))
    /\ Conn(3 - conn, Send(QueueOf(3 - conn), <<Query("tfidfcall", key, id, Len(calls) + 1, Fin(0))>>))
    /\ UNCHANGED <<options, db, ingests, clientVars, computed, faults, answered, sr>>

\* the callback given to TFIDF, as _fmt joins it into a key: its source
CallbackSource == "function (err, result) {}"

\* TFIDF(id, key, callback), with the arguments as the function binds them;
\* id = "" stands for an id that is undefined.  Given two arguments (argc =
\* 2), TFIDF(term, callback), the overload test of line 359 reads the
\* undeclared `text` and swaps nothing: id is the term and key is the
\* callback, so the read of lines 398-401 is sent, on the keys made of the
\* source of the callback.
Tfidf(conn, id, key, argc) ==
    /\ Cardinality({c \in 1..Len(calls) : calls[c].op = "TFIDF"}) < MaxCalls
    /\ calls' = Append(calls, NewDirect("TFIDF", conn, id, key, argc, << >>))
    /\ Conn(conn, Send(QueueOf(conn), <<Query("tfidfcall", key, id, Len(calls) + 1, Fin(0))>>))
    /\ UNCHANGED <<options, db, ingests, clientVars, computed, faults, answered, sr>>

\* execResults of a TFIDF call.  Given two arguments, the overload test reads
\* the undeclared `text`, callback stays undefined and calling it throws.
TfidfCallReply(conn, fail) ==
    /\ QueueOf(conn) # << >>
    /\ Head(QueueOf(conn)).op = "tfidfcall"
    /\ Fault(fail)
    /\ LET c == Head(QueueOf(conn)).call
       IN calls' = [calls EXCEPT ![c] =
                      IF @.argc = 2 THEN [@ EXCEPT !.threw = TRUE]
                      ELSE [@ EXCEPT !.cb = Append(@, [err |-> fail,
                                                       result |-> IF fail THEN << >>
                                                                  ELSE <<TFIDF(db, options, calls[c].a, calls[c].b)>>])]]
    /\ Conn(conn, Tail(QueueOf(conn)))
    /\ UNCHANGED <<options, db, ingests, clientVars, computed, sr>>

\* readDocument(id, text) on the second graph
ReadDocumentOther(id, text) ==
    /\ Cardinality({c \in 1..Len(calls) : calls[c].op = "readDocument"}) < MaxOtherIngests
    /\ calls' = Append(calls, NewDirect("readDocument", 2, id, text, 2, << >>))
    /\ Conn(2, Send(queue2, ReadDocumentCmds(options, id, text)))
    /\ UNCHANGED <<options, db, ingests, clientVars, computed, faults, answered, sr>>

\* The store executes a command the second graph sent without a callback
ExecWriteOther ==
    /\ queue2 # << >>
    /\ IsWrite(Head(queue2))
    /\ db' = ApplyWrite(db, Head(queue2))
    /\ queue2' = Tail(queue2)
    /\ answered' = answered + 1
    /\ UNCHANGED <<queue, calls, options, ingests, clientVars, computed, faults, sr>>

(* Similarity *)

\* _isIdFiltered(filterPrefixes, id); << >> stands for null
IsIdFiltered(filterPrefixes, id) ==
    /\ Len(filterPrefixes) > 0
    /\ \A i \in 1..Len(filterPrefixes) : ~Contains(id, filterPrefixes[i])

\* id1_scores: parseInt of the score of every id of the reply that is not
\* filtered.  id1_scores is a plain object: the assignment to
\* id1_scores["__proto__"] is ignored, the id is no property of its own.
Scores(filterPrefixes, z) ==
    [id \in {m \in DOMAIN z : ~IsIdFiltered(filterPrefixes, m) /\ m # "__proto__"} |->
        ParseIntScore(z, id)]

\* the sum of f over S
RECURSIVE SumOf(_, _)
SumOf(f, S) ==
    IF S = {} THEN Fin(0)
    ELSE LET x == CHOOSE x \in S : TRUE IN Add(f[x], SumOf(f, S \ {x}))

\* id1_sum: the sum of score * score over every id of the reply that is not
\* filtered, the id "__proto__" included
SquareSum(filterPrefixes, z) ==
    LET kept == {m \in DOMAIN z : ~IsIdFiltered(filterPrefixes, m)}
    IN SumOf([id \in kept |-> Mul(ParseIntScore(z, id), ParseIntScore(z, id))], kept)

\* the callback of the second zrange of _cosineFilter: sim, or threw.  Once
\* the id "hasOwnProperty" is stored in id1_scores or in id2_scores, the
\* call of its hasOwnProperty in the loop over ids throws a TypeError (a
\* number is not a function) and callback is never called; the test of
\* id2_scores is made only for an id that id1_scores has.
CosineFilter(filterPrefixes, z1, z2) ==
    LET id1_scores == Scores(filterPrefixes, z1)
        id2_scores == Scores(filterPrefixes, z2)
        id1_sum == SquareSum(filterPrefixes, z1)
        id2_sum == SquareSum(filterPrefixes, z2)
        both == DOMAIN id1_scores \cap DOMAIN id2_scores
        dotsum == SumOf([id \in both |-> Mul(id1_scores[id], id2_scores[id])], both)
        magnitude == Mul(Sqrt(id1_sum), Sqrt(id2_sum))
        threw == \/ "hasOwnProperty" \in DOMAIN id1_scores
                 \/ "hasOwnProperty" \in DOMAIN id2_scores /\ DOMAIN id1_scores # {}
    IN [threw |-> threw, sim |-> IF threw THEN NaN ELSE Div(dotsum, magnitude)]

\* CosineSimilarity(id1, id2, callback) (filterPrefixes null) and
\* CosineConceptSimilarity(id1, id2, callback) (filterPrefixes ['noun', 'adj'])
Cosine(filterPrefixes, id1, id2) ==
    /\ Cardinality({c \in 1..Len(calls) : calls[c].op = "cosine"}) < MaxSimilarities
    /\ calls' = Append(calls, NewDirect("cosine", 1, id1, id2, 3, filterPrefixes))
    /\ Conn(1, Send(queue, <<Query("cosine1", Fmt(options, <<WEIGHT, id1>>), "",
                                   Len(calls) + 1, Fin(0))>>))
    /\ UNCHANGED <<options, db, ingests, clientVars, computed, faults, answered, sr>>

\* the reply to zrange(_fmt(WEIGHT, id1), 0, -1, 'WITHSCORES')
CosineReply1(fail) ==
    /\ queue # << >>
    /\ Head(queue).op = "cosine1"
    /\ Fault(fail)
    /\ LET c == Head(queue).call
       IN IF fail
          THEN /\ calls' = [calls EXCEPT ![c].cb = Append(@, [err |-> TRUE, result |-> << >>])]
               /\ Conn(1, Tail(queue))
          ELSE /\ calls' = [calls EXCEPT ![c].replies = <<ZOf(db, Head(queue).key)>>]
               /\ Conn(1, Send(Tail(queue),
                               <<Query("cosine2", Fmt(options, <<WEIGHT, calls[c].b>>), "",
                                       c, Fin(0))>>))
    /\ UNCHANGED <<options, db, ingests, clientVars, computed, sr>>

\* the reply to zrange(_fmt(WEIGHT, id2), 0, -1, 'WITHSCORES')
CosineReply2(fail) ==
    /\ queue # << >>
    /\ Head(queue).op = "cosine2"
    /\ Fault(fail)
    /\ LET c == Head(queue).call
           z2 == ZOf(db, Head(queue).key)
           r == CosineFilter(calls[c].filter, calls[c].replies[1], z2)
       IN calls' = [calls EXCEPT ![c] =
                      IF fail THEN [@ EXCEPT !.cb = Append(@, [err |-> TRUE, result |-> << >>])]
                      ELSE IF r.threw THEN [@ EXCEPT !.replies = Append(@, z2), !.threw = TRUE]
                      ELSE [@ EXCEPT !.replies = Append(@, z2),
                                     !.cb = Append(@, [err |-> FALSE, result |-> <<r.sim>>])]]
    /\ Conn(1, Tail(queue))
    /\ UNCHANGED <<options, db, ingests, clientVars, computed, sr>>

InitClient ==
    /\ sr = << >>
    /\ queue = << >>
    /\ ingests = << >>
    /\ iw = << >>
    /\ ia = << >>
    /\ progressLog = << >>
    /\ finalLog = << >>
    /\ computed = << >>
    /\ faults = 0
    /\ answered = 0
    /\ queue2 = << >>
    /\ calls = << >>

\* Ingest: readDocument calls on an empty store
InitIngest ==
    /\ InitClient
    /\ options = defaultOptions
    /\ db = EmptyDb

NextIngest ==
    \/ \E id \in DocIds, text \in Texts : Len(ingests) < MaxIngests /\ ReadDocument(id, text)
    \/ ExecWrite

SpecIngest == InitIngest /\ [][NextIngest]_vars

\* Index all: the application ingests a corpus of up to NumDocs documents
\* d1, d2, ..., one after the other, and then calls indexAllWeights at any
\* time, a run while another is in progress or after one that threw
\* included, and indexWeights once, while the first run waits for its keys;
\* the store may fail commands
InitIndexAll ==
    /\ InitClient
    /\ options = defaultOptions
    /\ db = EmptyDb

Answer ==
    \/ \E fail \in BOOLEAN : RangeReply(fail)
    \/ \E fail \in BOOLEAN : TfidfReply(fail)
    \/ \E fail \in BOOLEAN : Zadd1Reply(fail)
    \/ \E fail \in BOOLEAN : Zadd2Reply(fail)
    \/ \E fail \in BOOLEAN, reversed \in BOOLEAN : KeysReply(fail, reversed)
    \/ ExecWrite

NextIndexAll ==
    \/ /\ Len(ingests) < NumDocs
       /\ queue = << >>
       /\ ia = << >>
       /\ ReadDocument(DocName(Len(ingests) + 1), CorpusText(Len(ingests) + 1))
    \/ IndexAllWeights
    \/ Len(ia) = 1 /\ ia[1].state = "keys" /\ iw = << >> /\ IndexWeights(DocName(1))
    \/ Answer

\* the store answers every command it was sent
Served == queue # << >> /\ answered' = answered + 1

SpecIndexAll == InitIndexAll /\ [][NextIndexAll]_vars /\ WF_answered(Served)

\* Weights: readDocument and indexWeights calls by the application, at any time
InitWeights ==
    /\ InitClient
    /\ options = defaultOptions
    /\ db = EmptyDb

NextWeights ==
    \/ \E id \in {"d1", "d2"} : IndexWeights(id)
    \/ \E id \in {"d1"}, text \in {"cat run cat", "the"} :
          Len(ingests) < MaxIngests /\ ReadDocument(id, text)
    \/ ExecWrite
    \/ RangeReply(FALSE)
    \/ TfidfReply(FALSE)
    \/ Zadd1Reply(FALSE)
    \/ Zadd2Reply(FALSE)

SpecWeights == InitWeights /\ [][NextWeights]_vars

\* Search: the application ingests documents of the corpus of the searches,
\* and then calls indexWeights and search at any time; the store may fail
\* commands of a search.  The graph is constructed with the default options or with a
\* namespace prefix.
nsOptions == [defaultOptions EXCEPT !.nsPrefix = "ns"]

InitSearch ==
    /\ InitClient
    /\ options \in {defaultOptions, nsOptions}
    /\ db = EmptyDb

NextSearch ==
    \/ /\ Len(ingests) < Len(SearchCorpus)
       /\ iw = << >>
       /\ sr = << >>
       /\ \E id \in (IF Len(ingests) = 1 THEN SecondIds ELSE {SearchCorpus[Len(ingests) + 1][1]}) :
             ReadDocument(id, SearchCorpus[Len(ingests) + 1][2])
    \/ \E id \in {"d1", IF Len(ingests) > 1 THEN ingests[2][1] ELSE "d2"} : IndexWeights(id)
    \/ \E terms \in SearchTerms, searchLimit \in SearchLimits : Search(terms, searchLimit)
    \/ ExecWrite
    \/ RangeReply(FALSE)
    \/ TfidfReply(FALSE)
    \/ Zadd1Reply(FALSE)
    \/ Zadd2Reply(FALSE)
    \/ \E fail \in BOOLEAN, reversed \in BOOLEAN : TermKeysReply(fail, reversed)
    \/ \E fail \in BOOLEAN : ZrevReply(fail)

SpecSearch == InitSearch /\ [][NextSearch]_vars

\* Shared store: a graph ingests documents and a second graph on the same
\* store ingests a document too, each over its own connection; TFIDF is called
\* on either graph at any time.  The ids of the documents include the key of
\* the document counter, on which the store refuses zincrby, and a node key.
InitShared ==
    /\ InitClient
    /\ options = defaultOptions
    /\ db = EmptyDb

NextShared ==
    \/ \E doc \in {<<"d1", "cat run cat">>, <<"d1", "the">>, <<TOTAL, "cat run cat">>} :
          Len(ingests) < MaxIngests /\ ReadDocument(doc[1], doc[2])
    \/ ExecWrite
    \/ \E id \in {"d2", "noun:cat"} : ReadDocumentOther(id, "cat cat run")
    \/ ExecWriteOther
    \/ \E conn \in {1, 2}, id \in {"", "d1", "d2"} : Tfidf(conn, id, "noun:cat", 3)
    \/ Tfidf(1, "noun:cat", CallbackSource, 2)
    \/ \E conn \in {1, 2} : TfidfCallReply(conn, FALSE)

SpecShared == InitShared /\ [][NextShared]_vars

\* Similarity: the application ingests document d1 and then documents without
\* terms, one after the other, and calls indexWeights and the similarities at
\* any time; the store may fail a command of a similarity.
InitSimilarity ==
    /\ InitClient
    /\ options = defaultOptions
    /\ db = EmptyDb

NextSimilarity ==
    \/ /\ Len(ingests) < NumSimDocs
       /\ queue = << >>
       /\ ReadDocument(DocName(Len(ingests) + 1),
                       IF Len(ingests) = 0 THEN "cat run cat" ELSE "the")
    \/ IndexWeights("d1")
    \/ \E filterPrefixes \in {<< >>, <<"noun", "adj">>}, id1 \in {"d1", "d2"}, id2 \in {"d1", "d2"} :
          Cosine(filterPrefixes, id1, id2)
    \/ ExecWrite
    \/ RangeReply(FALSE)
    \/ TfidfReply(FALSE)
    \/ Zadd1Reply(FALSE)
    \/ Zadd2Reply(FALSE)
    \/ \E fail \in BOOLEAN : CosineReply1(fail)
    \/ \E fail \in BOOLEAN : CosineReply2(fail)

SpecSimilarity == InitSimilarity /\ [][NextSimilarity]_vars

----------------------------------------------------------------------------
(* Reading the store in the properties *)

\* The integer at key, 0 when the key is absent
Counter(d, key) == IF Has(d, key) /\ d[key].ty = "int" THEN d[key].n ELSE 0

\* The integer weight of member in the sorted set at key, 0 when absent
Weight(d, key, member) ==
    IF member \in DOMAIN ZOf(d, key) THEN ZOf(d, key)[member] \div Scale ELSE 0

DocumentCount(d) == Counter(d, Fmt(options, <<TOTAL>>))
TotalOf(d, k) == Counter(d, Fmt(options, <<TOTAL, k>>))
AdjWeight(d, a, b) == Weight(d, Fmt(options, <<a>>), b)
NextWeight(d, a, b) == Weight(d, Fmt(options, <<NEXT, a>>), b)

\* The leaves of a node sequence, groups opened
RECURSIVE LeavesOf(_)
LeavesOf(nodes) ==
    IF Len(nodes) = 0 THEN << >>
    ELSE (IF Head(nodes).kind = "group"
          THEN Head(nodes).orig \o Head(nodes).children
          ELSE <<Head(nodes)>>) \o LeavesOf(Tail(nodes))

KeysOf(leaves) == [i \in 1..Len(leaves) |-> FmtNode(options, leaves[i])]

NodeKeys ==
    UNION { {KeysOf(LeavesOf(Parse(t)))[i] : i \in 1..Len(LeavesOf(Parse(t)))} : t \in Texts }

\* every ingest sent has been executed
Quiet == queue = << >>

----------------------------------------------------------------------------
(* C1: cooccurrence symmetry.  Once every command of the ingests made so far *)
(* has been executed, for every document id d, the keys of the store among  *)
(* them, and every node key k the weight of k in d's adjacency set equals   *)
(* the weight of d in k's adjacency set.                                    *)

C1_Symmetry ==
    Quiet => \A d \in DocIds, k \in NodeKeys : AdjWeight(db, d, k) = AdjWeight(db, k, d)

----------------------------------------------------------------------------
(* C2: ingest counting.  After one ingest of document d, whatever its id,   *)
(* with an unfiltered leaf sequence s into the empty store, the document    *)
(* count is 1, TOTAL(k) and the adjacency weight (d, k) are the number of   *)
(* positions of s holding k, and the next-edge weight a -> b is the number  *)
(* of i with s[i] = a and s[i+1] = b.                                       *)

IsPlain(nodes) == \A i \in 1..Len(nodes) : nodes[i].kind = "leaf" /\ ~nodes[i].isFiltered

Occurrences(s, k) == Cardinality({i \in 1..Len(s) : s[i] = k})
Adjacencies(s, a, b) == Cardinality({i \in 1..(Len(s) - 1) : s[i] = a /\ s[i + 1] = b})

C2_IngestCounting ==
    (Quiet /\ Len(ingests) = 1 /\ IsPlain(Parse(ingests[1][2]))) =>
        LET d == ingests[1][1]
            s == KeysOf(Parse(ingests[1][2]))
        IN /\ DocumentCount(db) = 1
           /\ \A k \in NodeKeys :
                /\ TotalOf(db, k) = Occurrences(s, k)
                /\ AdjWeight(db, d, k) = Occurrences(s, k)
           /\ \A a \in NodeKeys, b \in NodeKeys :
                NextWeight(db, a, b) = Adjacencies(s, a, b)

----------------------------------------------------------------------------
(* C3: double ingest.  After ingesting (d, s) twice into the empty store,   *)
(* every counter and every edge weight is twice its value after ingesting   *)
(* (d, s) once, and no other key or member exists.                          *)

Twice(val) ==
    CASE val.ty = "int"  -> IntVal(2 * val.n)
      [] val.ty = "zset" -> ZsetVal([m \in DOMAIN val.z |-> 2 * val.z[m]])
      [] OTHER           -> val

Doubled(d) == [k \in DOMAIN d |-> Twice(d[k])]

C3_DoubleIngest ==
    (Quiet /\ Len(ingests) = 2 /\ ingests[1] = ingests[2]) =>
        db = Doubled(ApplyAll(EmptyDb, ReadDocumentCmds(options, ingests[1][1], ingests[1][2])))

C3_Witness ==
    /\ Quiet
    /\ ingests = << <<"d1", "cat run cat">>, <<"d1", "cat run cat">> >>
    /\ DocumentCount(db) = 2
    /\ TotalOf(db, "noun:cat") = 4
    /\ NextWeight(db, "noun:cat", "verb:run") = 2
    /\ NextWeight(db, "noun:cat", "noun:cat") = 0

----------------------------------------------------------------------------
(* C4: filtered elements are transparent.  One ingest of a node sequence    *)
(* leaves the store exactly as the ingest of the same sequence without its  *)
(* filtered leaves, filtered groups and filtered children of groups.        *)

Unfiltered(nodes) == SelectSeq(nodes, LAMBDA n : ~n.isFiltered)

WithoutFiltered(nodes) ==
    LET top == Unfiltered(nodes)
    IN [i \in 1..Len(top) |->
          IF top[i].kind = "group"
          THEN [top[i] EXCEPT !.children = Unfiltered(top[i].children)]
          ELSE top[i]]

C4_FilteredTransparent ==
    (Quiet /\ Len(ingests) = 1) =>
        LET id == ingests[1][1]
            text == ingests[1][2]
        IN db = ApplyAll(EmptyDb, IngestCmds(options, id, text, WithoutFiltered(Parse(text))))

C4_Witness ==
    /\ Quiet
    /\ ingests = << <<"d2", "cat the run">> >>
    /\ NextWeight(db, "noun:cat", "verb:run") = 1
    /\ TotalOf(db, "det:the") = 0

----------------------------------------------------------------------------
(* C5: indexAllWeights completion.  In every run of indexAllWeights, over N *)
(* content entries, the progress calls made so far are {total: N, count: i} *)
(* for i = 1, 2, ... in order, at most N of them, with percent = 100 on the *)
(* N-th; the final callback is called at most once, after the N-th progress *)
(* call, with {total: N, count: N}; and every run eventually calls its      *)
(* final callback, whatever the indexWeights calls report.                  *)

\* the indexWeights calls started by the run r
RunCalls(r) == {c \in 1..Len(iw) : iw[c].run = r}

C5_Safe ==
    \A r \in 1..Len(ia) :
       LET N == Len(ia[r].keys)
       IN /\ Len(progressLog[r]) <= N
          /\ \A i \in 1..Len(progressLog[r]) :
               /\ progressLog[r][i].total = N
               /\ progressLog[r][i].count = i
               /\ (i = N => progressLog[r][i].percent = 100)
          /\ Len(finalLog[r]) <= 1
          /\ (ia[r].state = "done") = (finalLog[r] # << >>)
          /\ finalLog[r] # << >> =>
               /\ Len(progressLog[r]) = N
               /\ finalLog[r][1] = [total |-> N, count |-> N]

C5_IndexAllCompletes ==
    /\ []C5_Safe
    /\ \A r \in 1..MaxRuns : (Len(ia) >= r) ~> (Len(ia) >= r /\ finalLog[r] # << >>)

----------------------------------------------------------------------------
(* C6: concurrency cap.  In every run of indexAllWeights at most 8 of the   *)
(* indexWeights calls the run has started have not called back, and the     *)
(* calls the run has started are one for each of the first `started`        *)
(* content keys of the run, for the id of that key; when the run is done    *)
(* every content key has been started.                                      *)

InFlight(r) == {c \in RunCalls(r) : iw[c].reported = << >>}

C6_ConcurrencyCap ==
    \A r \in 1..Len(ia) :
       /\ Cardinality(InFlight(r)) <= 8
       /\ \A i \in 1..Len(ia[r].keys) :
             Cardinality({c \in RunCalls(r) : iw[c].parent = i}) =
                (IF i <= ia[r].started THEN 1 ELSE 0)
       /\ \A c \in RunCalls(r) :
             Fmt(options, <<CONTENT, iw[c].id>>) = ia[r].keys[iw[c].parent]
       /\ ia[r].state = "done" =>
             {iw[c].id : c \in RunCalls(r)} = {ingests[i][1] : i \in 1..Len(ingests)}

\* two runs in progress at once, each with 8 calls in flight and a content
\* key waiting for room
C6_Witness ==
    /\ Len(ia) = 2
    /\ \A r \in 1..2 :
          /\ Cardinality(InFlight(r)) = 8
          /\ ia[r].started < Len(ia[r].keys)

\* C6 as stated, the calls of every run and the direct calls counted
\* together: at most 8 indexWeights calls have been started and have not
\* called back
C6_AllCallsCap ==
    Cardinality({c \in 1..Len(iw) : iw[c].reported = << >>}) <= 8

----------------------------------------------------------------------------
(* C7: indexWeights on a document whose adjacency set is empty reports      *)
(* false and writes no weight entry.                                        *)

WeightKeys == {k \in DOMAIN db : StartsWith(k, Fmt(options, <<WEIGHT>>) \o options.separator)}

C7_EmptyReportsFalse ==
    \A c \in 1..Len(iw) :
        (iw[c].read /\ ~iw[c].failed /\ iw[c].n = 0) =>
            /\ iw[c].reported = <<FALSE>>
            /\ \A k \in WeightKeys : iw[c].id \notin DOMAIN ZOf(db, k)

\* what the code does there: it reports true, and writes no weight entry
C7_EmptyReportsTrue ==
    \A c \in 1..Len(iw) :
        (iw[c].read /\ ~iw[c].failed /\ iw[c].n = 0 /\ queue = << >>) =>
            /\ iw[c].reported = <<TRUE>>
            /\ (\A b \in 1..Len(iw) : iw[b].id = iw[c].id => iw[b].n = 0) =>
                  /\ Fmt(options, <<WEIGHT, iw[c].id>>) \notin DOMAIN db
                  /\ \A k \in WeightKeys : iw[c].id \notin DOMAIN ZOf(db, k)

----------------------------------------------------------------------------
(* C8: weight entries agree.  Once every indexWeights call made has called  *)
(* back, for every document d and term k the score of k in d's weight set   *)
(* is the score of d in k's weight set, and is the latest tfidf computed    *)
(* for (d, k).                                                              *)

AllReported == \A c \in 1..Len(iw) : iw[c].reported # << >>

WeightEntriesAgree ==
    \A d \in DocIds, k \in NodeKeys :
        LET wd == ZOf(db, Fmt(options, <<WEIGHT, d>>))
            wk == ZOf(db, Fmt(options, <<WEIGHT, k>>))
        IN /\ (k \in DOMAIN wd) = (d \in DOMAIN wk)
           /\ (k \in DOMAIN wd) = (<<d, k>> \in DOMAIN computed)
           /\ k \in DOMAIN wd =>
                /\ wd[k] = wk[d]
                /\ wd[k] = ScoreOf(computed[<<d, k>>])

C8_WeightsAgree == AllReported => WeightEntriesAgree

\* the entries do agree once every command sent has been answered
C8_AgreeWhenQuiet == Quiet => WeightEntriesAgree

----------------------------------------------------------------------------
(* C9: search scoring and ranking.  A search whose fetches have all been    *)
(* answered has called back, and when search calls back without error the   *)
(* score map holds exactly the ids fetched for the resolved terms, whatever *)
(* the ids are, each with the sum over the resolved terms of its fetched    *)
(* score for the term, and the id list is a permutation of these ids in     *)
(* order of non-increasing summed score.                                    *)

FetchedIds(s) ==
    UNION { {s.results[i][j].id : j \in 1..Len(s.results[i])} : i \in 1..Len(s.results) }

FetchedScore(entries, x) ==
    IF \E j \in 1..Len(entries) : entries[j].id = x
    THEN entries[CHOOSE j \in 1..Len(entries) : entries[j].id = x].score
    ELSE 0

RECURSIVE SummedScore(_, _, _)
SummedScore(s, x, n) ==
    IF n = 0 THEN 0 ELSE SummedScore(s, x, n - 1) + FetchedScore(s.results[n], x)

C9_SearchScores ==
    \A c \in 1..Len(sr) :
      /\ sr[c].phase = 3 => sr[c].cb # << >>
      /\ (sr[c].cb # << >> /\ ~sr[c].cb[1].err) =>
            LET given == sr[c].cb[1]
                S == FetchedIds(sr[c])
            IN /\ Len(sr[c].cb) = 1
               /\ Len(sr[c].results) = Len(sr[c].flat)
               /\ DOMAIN given.scores = S
               /\ \A x \in S : given.scores[x] = Fin(SummedScore(sr[c], x, Len(sr[c].flat)))
               /\ Len(given.ids) = Cardinality(S)
               /\ {given.ids[i] : i \in 1..Len(given.ids)} = S
               /\ \A i \in 1..Len(given.ids), j \in 1..Len(given.ids) :
                     i < j => given.scores[given.ids[i]].v >= given.scores[given.ids[j]].v

----------------------------------------------------------------------------
(* C10: empty search.  When every term of a search has been resolved and    *)
(* they resolve to no node key at all, search has called back once, without *)
(* error, with an empty id list and an empty score map.                     *)

C10_EmptySearch ==
    \A c \in 1..Len(sr) :
        (sr[c].waiting = {} /\ Flatten(sr[c].termResults) = << >>) =>
            sr[c].cb = <<SearchResult(FALSE, << >>, << >>)>>

C10_Witness ==
    \E c \in 1..Len(sr) :
        /\ sr[c].terms = <<"zzz", "yyy">>
        /\ sr[c].waiting = {}
        /\ sr[c].flat = << >>
        /\ Fmt(options, <<WEIGHT, "noun:cat">>) \in DOMAIN db
        /\ sr[c].cb = <<SearchResult(FALSE, << >>, << >>)>>

----------------------------------------------------------------------------
(* C16: the entries fetched per term *)

\* C16: for every resolved term of a search at most searchLimit entries of its
\* weight set are fetched and contribute to the scores, whatever the size of
\* the weight set.
\* The code asks for the ranks 0 .. searchLimit, which are searchLimit + 1
\* entries.
C16_SearchLimit ==
    \A c \in 1..Len(sr) :
        \A i \in 1..Len(sr[c].results) : Len(sr[c].results[i]) <= sr[c].limit

----------------------------------------------------------------------------
(* C17: the resolution of the terms of a search *)

\* the node keys of the store that end in the term, namespace prefix removed
KeysEndingIn(d, opts, term) ==
    {k \in NodeKeys : /\ Fmt(opts, <<k>>) \in DOMAIN d
                      /\ ~IsPrefixed(opts, Fmt(opts, <<k>>))
                      /\ EndsWith(k, opts.separator \o term)}

\* C17: under every configuration a term without the separator resolves to
\* node keys of the store that end in the term, with only the namespace prefix
\* removed, and a term with the separator is passed through unchanged.
\* With the empty namespace prefix the code cuts the first character of every
\* key found.
C17_TermResolution ==
    \A c \in 1..Len(sr) :
        sr[c].phase >= 2 =>
            \A i \in 1..Len(sr[c].terms) :
                IF Contains(sr[c].terms[i], options.separator)
                THEN sr[c].termResults[i] = <<sr[c].terms[i]>>
                ELSE \A j \in 1..Len(sr[c].termResults[i]) :
                        sr[c].termResults[i][j] \in KeysEndingIn(db, options, sr[c].terms[i])

----------------------------------------------------------------------------
(* C19: the callback of a search *)

\* the commands of search call c that the store has still to answer
Pending(c) ==
    {i \in 1..Len(queue) : queue[i].op \in {"termkeys", "zrevrange"} /\ queue[i].call = c}

\* C19: a search calls its callback exactly once on every path: never twice,
\* and once when the store has answered every command of the search, also when
\* a command has failed.
\* When a keys command fails, the callback of the command throws and the
\* callback of the search is never called; when two zrevrange commands of a
\* search fail, the callback of the search is called with the error twice.
C19_CallbackOnce ==
    \A c \in 1..Len(sr) :
        /\ Len(sr[c].cb) <= 1
        /\ Pending(c) = {} => Len(sr[c].cb) = 1

----------------------------------------------------------------------------
(* C18: groups are flattened *)

\* The flat leaf sequence of a node sequence: every group that is not
\* filtered stands for its original node followed by its children, in order,
\* without the filtered ones
RECURSIVE Flattened(_)
Flattened(nodes) ==
    IF Len(nodes) = 0 THEN << >>
    ELSE (CASE Head(nodes).isFiltered     -> << >>
            [] Head(nodes).kind = "group" -> Unfiltered(Head(nodes).orig \o Head(nodes).children)
            [] OTHER                      -> <<Head(nodes)>>)
         \o Flattened(Tail(nodes))

\* C18: one ingest of a node sequence with groups leaves the store exactly as
\* the ingest of the flat leaf sequence in which every group is replaced, at
\* its position, by its original node and its children without the filtered
\* ones: the same counters, adjacency edges and next-edges.
C18_GroupFlattening ==
    (Quiet /\ Len(ingests) = 1) =>
        LET id == ingests[1][1]
            text == ingests[1][2]
        IN db = ApplyAll(EmptyDb, IngestCmds(options, id, text, Flattened(Parse(text))))

C18_Witness ==
    /\ Quiet
    /\ ingests = << <<"d1", "big cat run">> >>
    /\ TotalOf(db, "noun:cat") = 2
    /\ NextWeight(db, "noun:cat", "adj:big") = 1
    /\ NextWeight(db, "adj:big", "noun:cat") = 1
    /\ NextWeight(db, "noun:cat", "verb:run") = 1

----------------------------------------------------------------------------
(* TFIDF calls in the properties *)

\* the TFIDF calls whose callback was given a result
Delivered ==
    {c \in 1..Len(calls) : /\ calls[c].op = "TFIDF"
                           /\ Len(calls[c].cb) = 1
                           /\ ~calls[c].cb[1].err}

ResultOf(c) == calls[c].cb[1].result[1]

----------------------------------------------------------------------------
(* C11: zero document frequency *)

\* C11: a TFIDF call for a term whose adjacency set is empty (document
\* frequency 0) gives idf = 0 and tfidf = 0, never Infinity or NaN.
\* The code divides the document count by 0: idf is Infinity, or NaN when no
\* document was counted, and tfidf is NaN.
C11_ZeroDocFrequency ==
    \A c \in Delivered :
        ResultOf(c).df = Num(0) => ResultOf(c).idf = Fin(0) /\ ResultOf(c).tfidf = Fin(0)

----------------------------------------------------------------------------
(* C14: a term that occurs in every document *)

\* C14: a TFIDF call for a term whose document frequency equals the document
\* count gives idf = 0 and tfidf = 0 whatever the term frequency read, for the
\* corpus-wide form (no id) and for a document id, also one with no adjacency
\* entry for the term.
\* The code reads NaN as the frequency of a term the document does not have,
\* and NaN * 0 is NaN.
C14_FullDocFrequency ==
    \A c \in Delivered :
        ResultOf(c).df = ResultOf(c).n => ResultOf(c).idf = Fin(0) /\ ResultOf(c).tfidf = Fin(0)

----------------------------------------------------------------------------
(* C15: the increments of one _incrEdges *)

\* every command the graph has sent for its readDocument calls, in order
RECURSIVE CmdsOf(_)
CmdsOf(docs) ==
    IF Len(docs) = 0 THEN << >>
    ELSE ReadDocumentCmds(options, Head(docs)[1], Head(docs)[2]) \o CmdsOf(Tail(docs))

\* the documents the second graph has been given: <<id, text>>
OtherDocs ==
    LET others == SelectSeq(calls, LAMBDA c : c.op = "readDocument")
    IN [i \in 1..Len(others) |-> <<others[i].a, others[i].b>>]

\* the commands the graph g has sent for its readDocument calls, and those
\* of them the store has executed
SentBy(g) == IF g = 1 THEN CmdsOf(ingests) ELSE CmdsOf(OtherDocs)
ExecutedOf(g) == Len(SentBy(g)) - Len(SelectSeq(QueueOf(g), IsWrite))

\* the store has executed every command of each _incrEdges of the graph g or
\* none: the command of g to be executed next is no zincrby
Whole(g) ==
    ExecutedOf(g) = Len(SentBy(g)) \/ SentBy(g)[ExecutedOf(g) + 1].op # "zincrby"

\* the TFIDF reads the store executes next: <<connection, call>>
NextReads ==
    {<<k, QueueOf(k)[1].call>> : k \in {k \in {1, 2} : /\ QueueOf(k) # << >>
                                                     /\ QueueOf(k)[1].op = "tfidfcall"}}

\* C15 as stated: the increments of one _incrEdges take effect as one step, so
\* that no TFIDF read, on whatever connection, is executed on a store in which
\* some but not all of them have been made.
\* The increments are separate commands: a read on another connection is
\* executed between them.
C15_Atomic ==
    NextReads # {} => Whole(1) /\ Whole(2)

\* C15: the increments of one _incrEdges are separate commands, sent
\* consecutively on the connection of the graph and executed one by one in
\* the order sent, each applied or refused by the store on its own; a TFIDF
\* read issued on the same graph is executed before all or after all commands
\* of one _incrEdges, on the store all the commands executed so far have
\* left, the refused ones without effect; a read issued on another connection
\* may be executed between them.
C15_OwnReadsWhole ==
    \A r \in NextReads :
        /\ Whole(calls[r[2]].conn)
        /\ db = ApplyAll(EmptyDb, SubSeq(SentBy(1), 1, ExecutedOf(1))
                                   \o SubSeq(SentBy(2), 1, ExecutedOf(2)))

\* a read of the first graph is executed next, after the _incrEdges of a
\* document whose id is the key of the document counter (the store has
\* refused an increment of each) and before those of a later document, while
\* the second graph is in the middle of an _incrEdges
C15_Witness ==
    /\ \E r \in NextReads : r[1] = 1 /\ calls[r[2]].conn = 1
    /\ Len(ingests) = 2
    /\ ingests[1][1] = TOTAL
    /\ TotalOf(db, "noun:cat") > AdjWeight(db, TOTAL, "noun:cat")
    /\ 0 < ExecutedOf(1) /\ ExecutedOf(1) < Len(SentBy(1))
    /\ ~Whole(2)

----------------------------------------------------------------------------
(* C20: counters bound what they count *)

\* the keys of the commands zincrby(_fmt(key), 1, id) of _incrEdges that the
\* store has executed for a connection, which sent cmds and has q still
\* queued: of the commands of one _incrEdges, the second zincrby after the
\* incrby
TermEdgeKeys(cmds, q) ==
    LET done == Len(cmds) - Len(SelectSeq(q, IsWrite))
    IN {cmds[i].key : i \in {j \in 3..done : /\ cmds[j].op = "zincrby"
                                             /\ cmds[j - 1].op = "zincrby"
                                             /\ cmds[j - 2].op = "incrby"}}

\* the keys of the adjacency sets of the terms in d: the sorted sets that
\* line 76 has written, on either connection.  The adjacency set of a
\* document (line 75) is a term's set as well when the id of the document is
\* a node key.
TermSets(d) ==
    {key \in TermEdgeKeys(CmdsOf(ingests), queue) \cup TermEdgeKeys(CmdsOf(OtherDocs), queue2) :
        Has(d, key) /\ d[key].ty = "zset"}

\* the ids of the documents given to either graph
IngestedIds ==
    {ingests[i][1] : i \in 1..Len(ingests)} \cup {OtherDocs[i][1] : i \in 1..Len(OtherDocs)}

\* C20: in every state of the store, also in the middle of an ingest and with
\* the ingests of two graphs interleaved, the document frequency of a term is
\* at most the document count and the adjacency weight of a document, whatever
\* its id, and a term is at most the total of the term; and every TFIDF
\* result with df > 0 has n >= df.
C20_CountersBound ==
    /\ \A key \in TermSets(db) : ZCard(db, key) <= DocumentCount(db)
    /\ \A id \in IngestedIds, k \in NodeKeys : AdjWeight(db, id, k) <= TotalOf(db, k)
    /\ \A c \in Delivered :
          ResultOf(c).df.v > 0 => ResultOf(c).n.k = "fin" /\ ResultOf(c).n.v >= ResultOf(c).df.v

----------------------------------------------------------------------------
(* C12 and C13: the similarity of weight vectors *)

\* the similarity calls whose callback was given a similarity
Compared ==
    {c \in 1..Len(calls) : /\ calls[c].op = "cosine"
                           /\ Len(calls[c].cb) = 1
                           /\ ~calls[c].cb[1].err}

\* C12: a similarity of two documents of which at least one has a weight
\* vector of zero magnitude, after filtering and as read, is 0 and not a
\* non-finite value.
\* The code divides the dot product 0 by the magnitude 0, which is NaN.
C12_ZeroMagnitude ==
    \A c \in Compared :
        (\E i \in 1..2 : SquareSum(calls[c].filter, calls[c].replies[i]) = Fin(0)) =>
            ResultOf(c) = Fin(0)

\* C13: the cosine similarity of a document with itself is 1 when its stored
\* weight vector has a score that is not 0, also when its scores are below 1.
\* The code reads the scores with parseInt, so every score below 1 is read
\* as 0 and the similarity is 0 / 0.
C13_SelfSimilarity ==
    \A c \in Compared :
        (/\ calls[c].a = calls[c].b
         /\ calls[c].filter = << >>
         /\ calls[c].replies[1] = calls[c].replies[2]
         /\ \E id \in DOMAIN calls[c].replies[1] : calls[c].replies[1][id] # 0) =>
            ResultOf(c) = Num(1)

====
